---- MODULE Spec2Model ----
(***************************************************************************)
(* Model of the plg:ldr service (src/core/hle/service/plgldr/plgldr.cpp):  *)
(* the shared PluginLoaderContext, the process lifecycle hooks, the        *)
(* memory-changed notification bridge and the IPC request handlers.        *)
(*                                                                         *)
(* Characters are one-character strings, NUL is the empty string, a        *)
(* std::string is a sequence of characters and a char[] field is a         *)
(* function from 0..capacity-1 to characters.  A u32 is a pair of 16-bit   *)
(* limbs <<hi, lo>> and a u64 four limbs, most significant first.          *)
(***************************************************************************)
EXTENDS Integers, Sequences, FiniteSets, TLC

VARIABLES
    plgldr_context,         \* PLG_LDR::plgldr_context
    allow_game_change,      \* PLG_LDR::allow_game_change
    plugin_loader_enabled,  \* Settings::values.plugin_loader_enabled
    running,                \* pids launched (OnProcessRun) and not yet exited
    handle_table,           \* handle table of every process: handle -> object
    op,                     \* the operation that produced this state
    args,                   \* its inputs
    ret,                    \* what it returned, wrote and called
    set_enabled_calls       \* the SetEnabled requests since the last other operation

vars == << plgldr_context, allow_game_change, plugin_loader_enabled, running,
           handle_table, op, args, ret, set_enabled_calls >>

(***************************************************************************)
(* Bounds of the model.                                                    *)
(***************************************************************************)
MaxProcs == 2
MaxHandles == 1
PathCap == 26
ConfigCap == 2
MaxChildren == 2
MaxStaged == 3

Pids == 1..MaxProcs
Handles == 1..MaxHandles

(***************************************************************************)
(* Characters and strings.                                                 *)
(***************************************************************************)
NUL == ""

Min(a, b) == IF a < b THEN a ELSE b

\* std::string::find: offset of the first occurrence of sub in s, npos if none
npos == -1

IsAt(s, sub, pos) ==
    /\ pos + Len(sub) <= Len(s)
    /\ \A k \in 1..Len(sub) : s[pos + k] = sub[k]

Find(s, sub) ==
    IF \E pos \in 0..Len(s) : IsAt(s, sub, pos)
    THEN CHOOSE pos \in 0..Len(s) :
            /\ IsAt(s, sub, pos)
            /\ \A q \in 0..(pos - 1) : ~IsAt(s, sub, q)
    ELSE npos

\* std::string::erase(pos, n)
Erase(s, pos, n) ==
    SubSeq(s, 1, pos) \o SubSeq(s, Min(pos + n, Len(s)) + 1, Len(s))

\* std::replace(begin, end, old, new)
Replace(s, old, new) == [k \in 1..Len(s) |-> IF s[k] = old THEN new ELSE s[k]]

\* std::string::ends_with
EndsWith(s, suffix) ==
    /\ Len(suffix) <= Len(s)
    /\ SubSeq(s, Len(s) - Len(suffix) + 1, Len(s)) = suffix

\* std::string(field + from): the characters of a char[cap] field from index
\* `from` up to the first NUL (the end of the field if there is none)
RECURSIVE CStr(_, _, _)
CStr(field, from, cap) ==
    IF from >= cap \/ field[from] = NUL THEN << >>
    ELSE << field[from] >> \o CStr(field, from + 1, cap)

HexDigit(d) ==
    << "0", "1", "2", "3", "4", "5", "6", "7",
       "8", "9", "A", "B", "C", "D", "E", "F" >>[d + 1]

\* one 16-bit limb as four upper-case hexadecimal digits
Hex4(w) ==
    << HexDigit(w \div 4096), HexDigit((w \div 256) % 16),
       HexDigit((w \div 16) % 16), HexDigit(w % 16) >>

\* fmt::format("{:016X}", program_id)
Hex16(program_id) ==
    Hex4(program_id[1]) \o Hex4(program_id[2]) \o
    Hex4(program_id[3]) \o Hex4(program_id[4])

\* static_cast<u32>(program_id)
LowU32(program_id) == << program_id[3], program_id[4] >>

(***************************************************************************)
(* Program constants.                                                      *)
(***************************************************************************)
\* FileUtil::GetUserPath(FileUtil::UserPath::SDMCDir)
SDMCDir == << "a", "/" >>

PluginDir == << "l", "u", "m", "a", "/", "p", "l", "u", "g", "i", "n", "s", "/" >>

Ext3gx == << ".", "3", "g", "x" >>

DefaultName == << "d", "e", "f", "a", "u", "l", "t" >> \o Ext3gx

\* "B #0x20" (0xEA000006) and "MOV R4, LR" (0xE1A0400E)
HomebrewWord1 == << 59904, 6 >>
HomebrewWord2 == << 57760, 16398 >>

RESULT_SUCCESS == "RESULT_SUCCESS"
ERR_NOT_AUTHORIZED == "ERR_NOT_AUTHORIZED"
ERR_NOT_IMPLEMENTED == "ERR_NOT_IMPLEMENTED"
ERR_OUT_OF_HANDLES == "ERR_OUT_OF_HANDLES"

\* Loader::ResultStatus: Success, or any of its errors
ResultStatus == { "Success", "Error" }

(***************************************************************************)
(* The context after static initialisation and the constructor.            *)
(***************************************************************************)
InitContext(enabled) ==
    [ is_enabled |-> enabled,
      plugin_loaded |-> FALSE,
      plugin_path |-> << >>,
      is_default_path |-> FALSE,
      use_user_load_parameters |-> FALSE,
      user_load_parameters |->
          [ no_flash |-> FALSE,
            low_title_Id |-> << 0, 0 >>,
            path |-> [k \in 0..(PathCap - 1) |-> NUL],
            config |-> [k \in 0..(ConfigCap - 1) |-> 0] ],
      memory_changed_handle |-> 0 ]

Init ==
    /\ \E enabled \in BOOLEAN :
          /\ plgldr_context = InitContext(enabled)
          /\ plugin_loader_enabled = enabled
    /\ allow_game_change = TRUE
    /\ running = {}
    /\ handle_table = [p \in Pids |-> [h \in Handles |-> "none"]]
    /\ op = "PLG_LDR"
    /\ args = [none |-> TRUE]
    /\ ret = [none |-> TRUE]
    /\ set_enabled_calls = << >>

(***************************************************************************)
(* The kernel and the plugin image loader, as far as the service uses      *)
(* them.                                                                   *)
(***************************************************************************)
\* FileSys::Plugin3GXLoader::Load(plgldr_context, process, kernel): the image
\* loader gets the whole context; a successful load sets plugin_loaded
\* a Load that marks the plugin loaded whatever its result
Load_AlwaysLoaded(ctx, result) == [ctx EXCEPT !.plugin_loaded = TRUE]

Load(ctx, result) ==
    IF result = "Success" THEN [ctx EXCEPT !.plugin_loaded = TRUE] ELSE ctx

EmptyTable == [h \in Handles |-> "none"]

\* HandleTable::Create: the first free handle, 0 when the table is full
FreeHandle(table) ==
    IF \E h \in Handles : table[h] = "none"
    THEN CHOOSE h \in Handles :
            /\ table[h] = "none"
            /\ \A g \in Handles : table[g] = "none" => h <= g
    ELSE 0

(***************************************************************************)
(* OnProcessRun                                                            *)
(***************************************************************************)
\* plugin_root and plugin_tid
PluginRoot == SDMCDir \o PluginDir

PluginTid(program_id) == PluginRoot \o Hex16(program_id)

DefaultPath == PluginRoot \o DefaultName

\* IsHomebrew comparing both words with the first pattern
IsHomebrew_SamePattern(process) ==
    process.value1 = HomebrewWord1 /\ process.value2 = HomebrewWord1

IsHomebrew(process) ==
    process.value1 = HomebrewWord1 /\ process.value2 = HomebrewWord2

UseUserLoadParameters(ctx, process) ==
    /\ ctx.use_user_load_parameters
    /\ ctx.user_load_parameters.low_title_Id = LowU32(process.program_id)
    /\ ctx.user_load_parameters.path[0] # NUL

\* plugin_file: the storage root followed by the staged path from its second
\* character on
UserPluginFile(ctx) == SDMCDir \o CStr(ctx.user_load_parameters.path, 1, PathCap)

\* one call of plugin_loader.Load, with the path and origin it is given
LoadCall(ctx, result) ==
    [ plugin_path |-> ctx.plugin_path,
      is_default_path |-> ctx.is_default_path,
      result |-> result ]

\* Attempt calling Load without having stored the path
Attempt_PathNotStored(st, path, is_default, result) ==
    LET c1 == [st.ctx EXCEPT !.is_default_path = is_default]
    IN [st EXCEPT !.ctx = Load(c1, result),
                  !.loads = Append(st.loads, LoadCall(c1, result))]

\* sets the path and its origin, then calls Load; st.loads lists the calls
Attempt(st, path, is_default, result) ==
    LET c1 == [st.ctx EXCEPT !.is_default_path = is_default, !.plugin_path = path]
    IN [st EXCEPT !.ctx = Load(c1, result),
                  !.loads = Append(st.loads, LoadCall(c1, result))]

IsCandidate(child) ==
    ~child.isDirectory /\ EndsWith(child.physicalName, Ext3gx)

\* the outcomes of one path tried: one for every result of Load
Attempts(st, path, is_default) ==
    { Attempt(st, path, is_default, result) : result \in ResultStatus }

Succeeded(st) == st.loads[Len(st.loads)].result = "Success"

\* TryChildren without the return on a successful load
RECURSIVE TryChildren_NoReturn(_, _, _)
TryChildren_NoReturn(st, children, i) ==
    IF i > Len(children) THEN { st }
    ELSE IF ~children[i].isDirectory /\ EndsWith(children[i].physicalName, Ext3gx)
    THEN UNION { TryChildren_NoReturn(st1, children, i + 1) :
                    st1 \in Attempts(st, children[i].physicalName, FALSE) }
    ELSE TryChildren_NoReturn(st, children, i + 1)

\* the loop over entry.children, from the ith child on: the outcomes it can
\* have; st.returned tells that it returned from OnProcessRun on a successful
\* load
RECURSIVE TryChildren(_, _, _)
TryChildren(st, children, i) ==
    IF i > Len(children) THEN { st }
    ELSE IF IsCandidate(children[i])
    THEN UNION { IF Succeeded(st1)
                 THEN { [st1 EXCEPT !.returned = TRUE] }
                 ELSE TryChildren(st1, children, i + 1) :
                    st1 \in Attempts(st, children[i].physicalName, FALSE) }
    ELSE TryChildren(st, children, i + 1)

\* TryDefault without is_default_path = true
TryDefault_NotMarked(st, default_exists) ==
    IF default_exists
    THEN Attempts([st EXCEPT !.default_checked = TRUE], DefaultPath, FALSE)
    ELSE { [st EXCEPT !.default_checked = TRUE] }

TryDefault(st, default_exists) ==
    IF default_exists
    THEN Attempts([st EXCEPT !.default_checked = TRUE], DefaultPath, TRUE)
    ELSE { [st EXCEPT !.default_checked = TRUE] }

\* RunBody with the default path tried after a failed override
RunBody_OverrideFallsBack(ctx, process, children, default_exists) ==
    LET st0 == [ ctx |-> ctx, loads |-> << >>, scanned |-> FALSE,
                 default_checked |-> FALSE, returned |-> FALSE ]
    IN IF ~ctx.is_enabled \/ ctx.plugin_loaded THEN { st0 }
       ELSE IF IsHomebrew(process) THEN { st0 }
       ELSE IF UseUserLoadParameters(ctx, process)
       THEN UNION { IF Succeeded(st1) THEN { st1 }
                    ELSE TryDefault(st1, default_exists) :
                       st1 \in Attempts(st0, UserPluginFile(ctx), FALSE) }
       ELSE UNION { IF st1.returned THEN { st1 }
                    ELSE TryDefault(st1, default_exists) :
                       st1 \in TryChildren([st0 EXCEPT !.scanned = TRUE],
                                           children, 1) }

\* RunBody without the early return on a loaded plugin
RunBody_IgnoresLoaded(ctx, process, children, default_exists) ==
    LET st0 == [ ctx |-> ctx, loads |-> << >>, scanned |-> FALSE,
                 default_checked |-> FALSE, returned |-> FALSE ]
    IN IF ~ctx.is_enabled THEN { st0 }
       ELSE IF IsHomebrew(process) THEN { st0 }
       ELSE IF UseUserLoadParameters(ctx, process)
       THEN Attempts(st0, UserPluginFile(ctx), FALSE)
       ELSE UNION { IF st1.returned THEN { st1 }
                    ELSE TryDefault(st1, default_exists) :
                       st1 \in TryChildren([st0 EXCEPT !.scanned = TRUE],
                                           children, 1) }

\* the whole body of OnProcessRun: the outcomes it can have, each the context
\* it leaves and the calls it made
RunBody(ctx, process, children, default_exists) ==
    LET st0 == [ ctx |-> ctx, loads |-> << >>, scanned |-> FALSE,
                 default_checked |-> FALSE, returned |-> FALSE ]
    IN IF ~ctx.is_enabled \/ ctx.plugin_loaded THEN { st0 }
       ELSE IF IsHomebrew(process) THEN { st0 }
       ELSE IF UseUserLoadParameters(ctx, process)
       THEN Attempts(st0, UserPluginFile(ctx), FALSE)
       ELSE UNION { IF st1.returned THEN { st1 }
                    ELSE TryDefault(st1, default_exists) :
                       st1 \in TryChildren([st0 EXCEPT !.scanned = TRUE],
                                           children, 1) }

\* the kernel launches the process: it joins the running processes with an
\* empty handle table
OnProcessRun(process, children, default_exists) ==
    /\ process.pid \notin running
    /\ \E st \in RunBody(plgldr_context, process, children, default_exists) :
       /\ plgldr_context' = st.ctx
       /\ running' = running \cup { process.pid }
       /\ handle_table' = [handle_table EXCEPT ![process.pid] = EmptyTable]
       /\ op' = "OnProcessRun"
       /\ args' = [ process |-> process, children |-> children,
                    default_exists |-> default_exists ]
       /\ ret' = [ loads |-> st.loads, scanned |-> st.scanned,
                   default_checked |-> st.default_checked ]
       /\ set_enabled_calls' = << >>
       /\ UNCHANGED << allow_game_change, plugin_loader_enabled >>

(***************************************************************************)
(* OnProcessExit                                                           *)
(***************************************************************************)
\* status is the word at _3GX_exe_load_addr - 0xC; critical tells whether the
\* "Checksum failed" diagnostic was logged
\* an OnProcessExit that clears plugin_loaded
OnProcessExit_ClearsLoaded(pid, status) ==
    /\ pid \in running
    /\ running' = running \ { pid }
    /\ plgldr_context' = [plgldr_context EXCEPT !.plugin_loaded = FALSE]
    /\ op' = "OnProcessExit"
    /\ args' = [ pid |-> pid, status |-> status ]
    /\ ret' = [ critical |-> plgldr_context.plugin_loaded /\ status = 0,
                plugin_path |-> plgldr_context.plugin_path ]
    /\ set_enabled_calls' = << >>
    /\ UNCHANGED << allow_game_change, plugin_loader_enabled, handle_table >>

OnProcessExit(pid, status) ==
    /\ pid \in running
    /\ running' = running \ { pid }
    /\ op' = "OnProcessExit"
    /\ args' = [ pid |-> pid, status |-> status ]
    /\ ret' = [ critical |-> plgldr_context.plugin_loaded /\ status = 0,
                plugin_path |-> plgldr_context.plugin_path ]
    /\ set_enabled_calls' = << >>
    /\ UNCHANGED << plgldr_context, allow_game_change, plugin_loader_enabled,
                    handle_table >>

(***************************************************************************)
(* The notification bridge                                                 *)
(***************************************************************************)
IsEvent(object) == object \in { "plg_event", "guest_event" }

\* handle_table.Get<Kernel::Event>(handle): the event at the handle, "none"
\* (nullptr) if the handle is free or names an object of another type
GetEvent(table, handle) ==
    IF handle \in Handles /\ IsEvent(table[handle]) THEN table[handle] ELSE "none"

\* GetMemoryChangedHandle without the early return on a cached handle
MemoryChangedHandle_NoCache(ctx, table) == FreeHandle(table)

\* the handle GetMemoryChangedHandle caches: the cached one if there is one,
\* else the one the current process's table gives the new event (0: none)
MemoryChangedHandle(ctx, table) ==
    IF ctx.memory_changed_handle # 0 THEN ctx.memory_changed_handle
    ELSE FreeHandle(table)

\* current is kernel.GetCurrentProcess(): the scheduler may have made any
\* running process current by the time of the call
GetMemoryChangedHandle(current) ==
    LET table == handle_table[current]
        cached == plgldr_context.memory_changed_handle # 0
        handle == MemoryChangedHandle(plgldr_context, table)
    IN /\ current \in running
       /\ plgldr_context' = [plgldr_context EXCEPT !.memory_changed_handle = handle]
       /\ handle_table' =
             IF ~cached /\ handle # 0
             THEN [handle_table EXCEPT ![current][handle] = "plg_event"]
             ELSE handle_table
       /\ op' = "GetMemoryChangedHandle"
       /\ args' = [ current |-> current ]
       /\ ret' = [ status |-> IF handle # 0 THEN RESULT_SUCCESS ELSE ERR_OUT_OF_HANDLES,
                   handle |-> handle,
                   created |-> ~cached ]
       /\ set_enabled_calls' = << >>
       /\ UNCHANGED << allow_game_change, plugin_loader_enabled, running >>

\* Signaled without the check of plugin_loaded
Signaled_LoadedNotChecked(ctx, table) ==
    IF ctx.memory_changed_handle = 0 THEN "none"
    ELSE GetEvent(table, ctx.memory_changed_handle)

\* the object OnMemoryChanged signals, "none" if it signals nothing
Signaled(ctx, table) ==
    IF ~ctx.plugin_loaded \/ ctx.memory_changed_handle = 0 THEN "none"
    ELSE GetEvent(table, ctx.memory_changed_handle)

OnMemoryChanged(current) ==
    /\ current \in running
    /\ op' = "OnMemoryChanged"
    /\ args' = [ current |-> current ]
    /\ ret' = [ signaled |-> Signaled(plgldr_context, handle_table[current]) ]
    /\ set_enabled_calls' = << >>
    /\ UNCHANGED << plgldr_context, allow_game_change, plugin_loader_enabled,
                    running, handle_table >>

\* the current process creates a kernel object of its own: its handle table
\* gives it the first free handle
GuestCreateObject(current, object) ==
    LET handle == FreeHandle(handle_table[current])
    IN /\ current \in running
       /\ handle # 0
       /\ handle_table' = [handle_table EXCEPT ![current][handle] = object]
       /\ op' = "GuestCreateObject"
       /\ args' = [ current |-> current, object |-> object ]
       /\ ret' = [ handle |-> handle ]
       /\ set_enabled_calls' = << >>
       /\ UNCHANGED << plgldr_context, allow_game_change,
                       plugin_loader_enabled, running >>

\* the current process closes one of the handles of its table
GuestCloseHandle(current, handle) ==
    /\ current \in running
    /\ handle_table[current][handle] # "none"
    /\ handle_table' = [handle_table EXCEPT ![current][handle] = "none"]
    /\ op' = "GuestCloseHandle"
    /\ args' = [ current |-> current, handle |-> handle ]
    /\ ret' = [ none |-> TRUE ]
    /\ set_enabled_calls' = << >>
    /\ UNCHANGED << plgldr_context, allow_game_change, plugin_loader_enabled,
                    running >>

(***************************************************************************)
(* The request handlers                                                    *)
(***************************************************************************)
IsEnabled ==
    /\ op' = "IsEnabled"
    /\ args' = [ none |-> TRUE ]
    /\ ret' = [ status |-> RESULT_SUCCESS, enabled |-> plgldr_context.is_enabled ]
    /\ set_enabled_calls' = << >>
    /\ UNCHANGED << plgldr_context, allow_game_change, plugin_loader_enabled,
                    running, handle_table >>

\* can_change with && for ||
CanChange_And(ctx, enabled, allow) == enabled = ctx.is_enabled /\ allow

\* can_change without the no-op case
CanChange_AllowOnly(ctx, enabled, allow) == allow

CanChange(ctx, enabled, allow) == enabled = ctx.is_enabled \/ allow

\* a SetEnabled that does not write the setting
SetEnabled_SettingNotWritten(word) ==
    LET enabled == (word = 1)
        can_change == CanChange(plgldr_context, enabled, allow_game_change)
        status == IF can_change THEN RESULT_SUCCESS ELSE ERR_NOT_AUTHORIZED
    IN /\ plgldr_context' =
             IF can_change THEN [plgldr_context EXCEPT !.is_enabled = enabled]
             ELSE plgldr_context
       /\ op' = "SetEnabled"
       /\ args' = [ word |-> word ]
       /\ ret' = [ status |-> status, setting_written |-> FALSE ]
       /\ set_enabled_calls' =
             (IF set_enabled_calls = << >> THEN << >>
              ELSE << set_enabled_calls[Len(set_enabled_calls)] >>)
             \o << [ enabled |-> enabled, status |-> status,
                     before |-> plgldr_context.is_enabled ] >>
       /\ UNCHANGED << allow_game_change, plugin_loader_enabled, running,
                       handle_table >>

\* word is the u32 popped from the request
SetEnabled(word) ==
    LET enabled == (word = 1)
        can_change == CanChange(plgldr_context, enabled, allow_game_change)
        status == IF can_change THEN RESULT_SUCCESS ELSE ERR_NOT_AUTHORIZED
    IN /\ plgldr_context' =
             IF can_change THEN [plgldr_context EXCEPT !.is_enabled = enabled]
             ELSE plgldr_context
       /\ plugin_loader_enabled' = IF can_change THEN enabled ELSE plugin_loader_enabled
       /\ op' = "SetEnabled"
       /\ args' = [ word |-> word ]
       /\ ret' = [ status |-> status, setting_written |-> can_change ]
       /\ set_enabled_calls' =
             (IF set_enabled_calls = << >> THEN << >>
              ELSE << set_enabled_calls[Len(set_enabled_calls)] >>)
             \o << [ enabled |-> enabled, status |-> status,
                     before |-> plgldr_context.is_enabled ] >>
       /\ UNCHANGED << allow_game_change, running, handle_table >>

\* a copy length that keeps no room for the terminator
PathCopyLen_NoReserve(size) == Min(PathCap, size)

\* the number of bytes SetLoadSettings copies from a path buffer of `size`
\* bytes, which is also the index of the terminator it writes
PathCopyLen(size) == Min(PathCap - 1, size)

\* the bytes SetLoadSettings writes to user_load_parameters.path, by index
PathWrites(buf) ==
    LET n == PathCopyLen(Len(buf))
    IN [k \in 0..n |-> IF k < n THEN buf[k + 1] ELSE NUL]

ConfigCopyLen(size) == Min(ConfigCap, size)

\* the bytes SetLoadSettings writes to user_load_parameters.config, by index
ConfigWrites(buf) ==
    [k \in 0..(ConfigCopyLen(Len(buf)) - 1) |-> buf[k + 1]]

\* a field after the writes; a write outside the field does not land in it
Store(field, writes) ==
    [k \in DOMAIN field |-> IF k \in DOMAIN writes THEN writes[k] ELSE field[k]]

SetLoadSettings(no_flash, low_title_Id, path, config) ==
    /\ plgldr_context' =
          [plgldr_context EXCEPT
              !.use_user_load_parameters = TRUE,
              !.user_load_parameters.no_flash = (no_flash = 1),
              !.user_load_parameters.low_title_Id = low_title_Id,
              !.user_load_parameters.path = Store(@, PathWrites(path)),
              !.user_load_parameters.config = Store(@, ConfigWrites(config))]
    /\ op' = "SetLoadSettings"
    /\ args' = [ no_flash |-> no_flash, low_title_Id |-> low_title_Id,
                 path |-> path, config |-> config ]
    /\ ret' = [ status |-> RESULT_SUCCESS,
                path_written |-> DOMAIN PathWrites(path),
                config_written |-> DOMAIN ConfigWrites(config) ]
    /\ set_enabled_calls' = << >>
    /\ UNCHANGED << allow_game_change, plugin_loader_enabled, running,
                    handle_table >>

\* std::string(data.data()) of a buffer copied into a vector of size + 1
\* bytes and terminated at its end
BufStr(buf) ==
    CStr([k \in 0..Len(buf) |-> IF k < Len(buf) THEN buf[k + 1] ELSE NUL],
         0, Len(buf) + 1)

DisplayErrorMessage(error_code, title, desc) ==
    /\ op' = "DisplayErrorMessage"
    /\ args' = [ error_code |-> error_code, title |-> title, desc |-> desc ]
    /\ ret' = [ status |-> RESULT_SUCCESS,
                log |-> << error_code, BufStr(title), BufStr(desc) >> ]
    /\ set_enabled_calls' = << >>
    /\ UNCHANGED << plgldr_context, allow_game_change, plugin_loader_enabled,
                    running, handle_table >>

\* Kernel::CoreVersion(1, 0, 0)
plgldr_version == << 1, 0, 0 >>

GetPLGLDRVersion ==
    /\ op' = "GetPLGLDRVersion"
    /\ args' = [ none |-> TRUE ]
    /\ ret' = [ status |-> RESULT_SUCCESS, version |-> plgldr_version ]
    /\ set_enabled_calls' = << >>
    /\ UNCHANGED << plgldr_context, allow_game_change, plugin_loader_enabled,
                    running, handle_table >>

\* a GetArbiter that answers success and switches the loader off
GetArbiter_Disables ==
    /\ plgldr_context' = [plgldr_context EXCEPT !.is_enabled = FALSE]
    /\ op' = "GetArbiter"
    /\ args' = [ none |-> TRUE ]
    /\ ret' = [ status |-> RESULT_SUCCESS ]
    /\ set_enabled_calls' = << >>
    /\ UNCHANGED << allow_game_change, plugin_loader_enabled, running,
                    handle_table >>

GetArbiter ==
    /\ op' = "GetArbiter"
    /\ args' = [ none |-> TRUE ]
    /\ ret' = [ status |-> ERR_NOT_IMPLEMENTED ]
    /\ set_enabled_calls' = << >>
    /\ UNCHANGED << plgldr_context, allow_game_change, plugin_loader_enabled,
                    running, handle_table >>

\* plugin_path with the first occurrence of root_sd erased
\* EraseRoot that erases nothing
EraseRoot_Never(plugin_path, root_sd) == plugin_path

EraseRoot(plugin_path, root_sd) ==
    LET it == Find(plugin_path, root_sd)
    IN IF it # npos THEN Erase(plugin_path, it, Len(root_sd)) ELSE plugin_path

LeadingSlash(plugin_path) ==
    IF plugin_path = << >> \/ plugin_path[1] # "/"
    THEN << "/" >> \o plugin_path ELSE plugin_path

\* GuestPluginPath without the std::replace of the backslashes
GuestPluginPath_NoReplace(plugin_path) ==
    LeadingSlash(EraseRoot(plugin_path, SDMCDir))

\* the string GetPluginPath writes from
GuestPluginPath(plugin_path) ==
    LeadingSlash(Replace(EraseRoot(plugin_path, SDMCDir), "\\", "/"))

\* path.Write(c_str, 0, min(size, length + 1)): the bytes written to a buffer
\* of `size` bytes
WriteOut(str, size) == SubSeq(str \o << NUL >>, 1, Min(size, Len(str) + 1))

GetPluginPath(size) ==
    /\ op' = "GetPluginPath"
    /\ args' = [ size |-> size ]
    /\ ret' = [ status |-> RESULT_SUCCESS,
                written |-> WriteOut(GuestPluginPath(plgldr_context.plugin_path), size) ]
    /\ set_enabled_calls' = << >>
    /\ UNCHANGED << plgldr_context, allow_game_change, plugin_loader_enabled,
                    running, handle_table >>

\* the administrative path that sets allow_game_change
\* the command table of the constructor: the handler of each command id,
\* "nullptr" for a declared command without one
functions ==
    [ command \in 1..13 |->
        CASE command = 1 -> [ handler |-> "nullptr", name |-> "LoadPlugin" ]
          [] command = 2 -> [ handler |-> "IsEnabled", name |-> "IsEnabled" ]
          [] command = 3 -> [ handler |-> "SetEnabled", name |-> "SetEnabled" ]
          [] command = 4 -> [ handler |-> "SetLoadSettings", name |-> "SetLoadSettings" ]
          [] command = 5 -> [ handler |-> "nullptr", name |-> "DisplayMenu" ]
          [] command = 6 -> [ handler |-> "nullptr", name |-> "DisplayMessage" ]
          [] command = 7 -> [ handler |-> "DisplayErrorMessage", name |-> "DisplayErrorMessage" ]
          [] command = 8 -> [ handler |-> "GetPLGLDRVersion", name |-> "GetPLGLDRVersion" ]
          [] command = 9 -> [ handler |-> "GetArbiter", name |-> "GetArbiter" ]
          [] command = 10 -> [ handler |-> "GetPluginPath", name |-> "GetPluginPath" ]
          [] command = 11 -> [ handler |-> "nullptr", name |-> "SetRosalinaMenuBlock" ]
          [] command = 12 -> [ handler |-> "nullptr", name |-> "SetSwapParam" ]
          [] OTHER -> [ handler |-> "nullptr", name |-> "SetLoadExeParam" ] ]

\* a request for a command without a handler: no code of the service runs
UnimplementedCommand(command) ==
    /\ functions[command].handler = "nullptr"
    /\ op' = functions[command].name
    /\ args' = [ command |-> command ]
    /\ ret' = [ handler |-> "nullptr" ]
    /\ set_enabled_calls' = << >>
    /\ UNCHANGED << plgldr_context, allow_game_change, plugin_loader_enabled,
                    running, handle_table >>

SetAllowGameChangeState(allow) ==
    /\ allow # allow_game_change
    /\ allow_game_change' = allow
    /\ op' = "SetAllowGameChangeState"
    /\ args' = [ allow |-> allow ]
    /\ ret' = [ none |-> TRUE ]
    /\ set_enabled_calls' = << >>
    /\ UNCHANGED << plgldr_context, plugin_loader_enabled, running,
                    handle_table >>

(***************************************************************************)
(* The inputs of the operations.                                           *)
(***************************************************************************)
\* program ids 0x0004000000000100 and 0x0004000000000200
TitleIds == { << 4, 0, 0, 256 >>, << 4, 0, 0, 512 >> }

\* the words at the code segment's base and 32 bytes later: a homebrew
\* executable, and two that match one of the two patterns only
CodeWords ==
    { << HomebrewWord1, HomebrewWord2 >>,
      << HomebrewWord1, << 0, 0 >> >>,
      << << 0, 0 >>, HomebrewWord2 >> }

FewCodeWords ==
    { << HomebrewWord1, HomebrewWord2 >>, << HomebrewWord1, << 0, 0 >> >> }

Processes(pids, words) ==
    { [ pid |-> pid, program_id |-> id, value1 |-> w[1], value2 |-> w[2] ] :
         pid \in pids, id \in TitleIds, w \in words }

\* an entry of the per-title directory, as ScanDirectoryTree reports it
Child(program_id, name, isDirectory) ==
    [ isDirectory |-> isDirectory,
      physicalName |-> PluginTid(program_id) \o << "/" >> \o name ]

PluginA(program_id) == Child(program_id, << "a" >> \o Ext3gx, FALSE)
PluginB(program_id) == Child(program_id, << "b" >> \o Ext3gx, FALSE)
SubDir(program_id) == Child(program_id, << "d" >> \o Ext3gx, TRUE)
TextFile(program_id) == Child(program_id, << "c", ".", "t", "x", "t" >>, FALSE)

StatusWords == { 0, 1 }
EnableWords == { 0, 1, 2 }
OutSizes == { 0, 3, 64 }

\* what the requests of Next carry
FewChildren(program_id) == { << PluginA(program_id) >> }
FewPaths == { << "\\", "\\", "a", "/", "a" >> }
FewConfigs == { << 7 >> }

Next ==
    \/ \E process \in Processes(Pids, FewCodeWords), default_exists \in BOOLEAN :
          \E children \in FewChildren(process.program_id) :
              OnProcessRun(process, children, default_exists)
    \/ \E pid \in Pids, status \in StatusWords : OnProcessExit(pid, status)
    \/ \E current \in Pids : GetMemoryChangedHandle(current)
    \/ \E current \in Pids : OnMemoryChanged(current)
    \/ IsEnabled
    \/ \E word \in EnableWords : SetEnabled(word)
    \/ \E id \in TitleIds, path \in FewPaths, config \in FewConfigs :
          SetLoadSettings(1, LowU32(id), path, config)
    \/ DisplayErrorMessage(1, << "a" >>, << "a", NUL, "a" >>)
    \/ GetPLGLDRVersion
    \/ GetArbiter
    \/ \E command \in DOMAIN functions : UnimplementedCommand(command)
    \/ \E size \in OutSizes : GetPluginPath(size)
    \/ \E allow \in BOOLEAN : SetAllowGameChangeState(allow)

Spec == Init /\ [][Next]_vars

(***************************************************************************)
(* Automatic discovery: one process slot, launched again and again with    *)
(* every listing of the per-title directory.                               *)
(***************************************************************************)
DirEntries(program_id) ==
    { PluginA(program_id), PluginB(program_id), SubDir(program_id),
      TextFile(program_id) }

\* the listings of up to MaxChildren entries, in every enumeration order
ChildLists(program_id) ==
    { children \in UNION { [1..n -> DirEntries(program_id)] : n \in 0..MaxChildren } :
         \A i, j \in 1..Len(children) : children[i] = children[j] => i = j }

\* the listings by program id
ListingsOf == [id \in TitleIds |-> ChildLists(id)]

DiscoveryPaths == { << >>, << "/", "a" >> }

NextDiscovery ==
    \/ \E process \in Processes({ 1 }, CodeWords), default_exists \in BOOLEAN :
          \E children \in ListingsOf[process.program_id] :
              OnProcessRun(process, children, default_exists)
    \/ \E status \in StatusWords : OnProcessExit(1, status)
    \/ \E id \in TitleIds, path \in DiscoveryPaths, config \in FewConfigs :
          SetLoadSettings(1, LowU32(id), path, config)

SpecDiscovery == Init /\ [][NextDiscovery]_vars

(***************************************************************************)
(* The staged override: one process slot, and one SetLoadSettings request  *)
(* with every path buffer of up to MaxStaged characters and the buffer that *)
(* spells the default plugin's path.                                       *)
(***************************************************************************)
\* the sequences of up to n elements of chars
Strings(chars, n) == UNION { [1..k -> chars] : k \in 0..n }

PathChars == { "/", "\\", "a" }

\* "/luma/plugins/default.3gx"
DefaultSpelled == << "/" >> \o PluginDir \o DefaultName

PathBuffers ==
    Strings(PathChars, MaxStaged) \cup { << NUL, "a" >>, DefaultSpelled }

NextOverride ==
    \/ \E id \in TitleIds, path \in PathBuffers, config \in FewConfigs :
          /\ ~plgldr_context.use_user_load_parameters
          /\ SetLoadSettings(1, LowU32(id), path, config)
    \/ \E process \in Processes({ 1 }, FewCodeWords), default_exists \in BOOLEAN :
          \E children \in FewChildren(process.program_id) :
              OnProcessRun(process, children, default_exists)
    \/ \E status \in StatusWords : OnProcessExit(1, status)
    \/ \E size \in OutSizes : GetPluginPath(size)

SpecOverride == Init /\ [][NextOverride]_vars

(***************************************************************************)
(* The notification bridge with two processes that create and close        *)
(* kernel objects of their own.                                            *)
(***************************************************************************)
NotifyPids == { 1, 2 }

\* processes of one title that are not homebrew
NotifyProcesses ==
    { process \in Processes(NotifyPids, FewCodeWords) :
         /\ process.program_id = << 4, 0, 0, 256 >>
         /\ ~IsHomebrew(process) }

\* an event and an object that is not an event
GuestObjects == { "guest_event", "guest_obj" }

NextNotify ==
    \/ \E process \in NotifyProcesses :
          \E children \in FewChildren(process.program_id) :
              OnProcessRun(process, children, FALSE)
    \/ \E pid \in NotifyPids : OnProcessExit(pid, 1)
    \/ \E current \in NotifyPids : GetMemoryChangedHandle(current)
    \/ \E current \in NotifyPids : OnMemoryChanged(current)
    \/ \E current \in NotifyPids, object \in GuestObjects :
          GuestCreateObject(current, object)
    \/ \E current \in NotifyPids, handle \in Handles :
          GuestCloseHandle(current, handle)

SpecNotify == Init /\ [][NextNotify]_vars

(***************************************************************************)
(* SetLoadSettings alone, request after request, with path and config      *)
(* buffers shorter than, as long as and longer than the fields.            *)
(***************************************************************************)
\* buffer sizes around nothing and around the capacity of the path field
PathSizes == { 0, 1, 2, PathCap - 1, PathCap, PathCap + 1 }

\* buffers of these sizes, without and with a NUL as second character
LongPathBuffers ==
    { [k \in 1..n |-> IF k = z THEN NUL ELSE "a"] : n \in PathSizes, z \in { 0, 2 } }

ConfigBuffers == Strings({ 7 }, ConfigCap + 1)

NextBuffers ==
    \E id \in { << 4, 0, 0, 256 >> }, path \in LongPathBuffers,
       config \in ConfigBuffers :
        SetLoadSettings(1, LowU32(id), path, config)

SpecBuffers == Init /\ [][NextBuffers]_vars

(***************************************************************************)
(* Properties                                                              *)
(***************************************************************************)
\* the step is a call of OnProcessRun
RunStep == op' = "OnProcessRun"

\* the launched process of the step has 0xEA000006 at its code segment's base
\* and 0xE1A0400E 32 bytes later
HomebrewLaunched ==
    /\ args'.process.value1 = << 59904, 6 >>
    /\ args'.process.value2 = << 57760, 16398 >>

\* the override staged in ctx applies to the process
OverrideStagedFor(ctx, process) ==
    /\ ctx.use_user_load_parameters
    /\ ctx.user_load_parameters.low_title_Id[1] = process.program_id[3]
    /\ ctx.user_load_parameters.low_title_Id[2] = process.program_id[4]
    /\ ctx.user_load_parameters.path[0] # NUL

\* C1: an OnProcessRun on a homebrew process (0xEA000006 at the code
\* segment's base, 0xE1A0400E at base+32) calls Load for no path, neither
\* scans the per-title directory nor looks for the default plugin, and leaves
\* plugin_loaded false if it was false, whatever the context was before.
C1_HomebrewNeverLoads ==
    [][ (RunStep /\ HomebrewLaunched) =>
            /\ ret'.loads = << >>
            /\ ~ret'.scanned
            /\ ~ret'.default_checked
            /\ (~plgldr_context.plugin_loaded => ~plgldr_context'.plugin_loaded) ]_vars

\* C1 witness: OnProcessRun has returned for a homebrew process while the
\* loader was enabled, no plugin was loaded and a matching override was staged
C1_Witness ==
    /\ op = "OnProcessRun"
    /\ args.process.value1 = << 59904, 6 >>
    /\ args.process.value2 = << 57760, 16398 >>
    /\ plgldr_context.is_enabled
    /\ ~plgldr_context.plugin_loaded
    /\ OverrideStagedFor(plgldr_context, args.process)
    /\ args.default_exists
    /\ ret.loads = << >>

\* C4: SetEnabled returns success and stores the requested value exactly when
\* the value equals is_enabled or allow_game_change is true; otherwise it
\* returns the not-authorized status and leaves the whole context unchanged;
\* and is_enabled changes its value only in a SetEnabled step taken while
\* allow_game_change is true.
C4_SetEnabledAuthorized ==
    [][ /\ op' = "SetEnabled" =>
              LET enabled == (args'.word = 1)
              IN IF enabled = plgldr_context.is_enabled \/ allow_game_change
                 THEN /\ ret'.status = "RESULT_SUCCESS"
                      /\ plgldr_context' =
                            [plgldr_context EXCEPT !.is_enabled = enabled]
                 ELSE /\ ret'.status = "ERR_NOT_AUTHORIZED"
                      /\ plgldr_context' = plgldr_context
        /\ plgldr_context'.is_enabled # plgldr_context.is_enabled =>
              op' = "SetEnabled" /\ allow_game_change ]_vars

\* C4 witness: a SetEnabled that asked for a change was rejected
C4_Witness ==
    /\ op = "SetEnabled"
    /\ ~allow_game_change
    /\ ret.status = "ERR_NOT_AUTHORIZED"
    /\ plgldr_context.is_enabled # (args.word = 1)

\* SetEnabled(false) directly followed by SetEnabled(true), both while
\* allow_game_change was false
FalseThenTrueDenied ==
    /\ op = "SetEnabled"
    /\ ~allow_game_change
    /\ Len(set_enabled_calls) = 2
    /\ ~set_enabled_calls[1].enabled
    /\ set_enabled_calls[2].enabled

\* C5 as stated: with allow_game_change false, SetEnabled(false) followed by
\* SetEnabled(true) fails both times with the not-authorized status and
\* is_enabled is afterwards what it was before.
C5_BothFail ==
    FalseThenTrueDenied =>
        /\ set_enabled_calls[1].status = "ERR_NOT_AUTHORIZED"
        /\ set_enabled_calls[2].status = "ERR_NOT_AUTHORIZED"
        /\ plgldr_context.is_enabled = set_enabled_calls[1].before

\* C5 amended: with allow_game_change false, of SetEnabled(false) followed by
\* SetEnabled(true) exactly the call whose value differs from is_enabled fails
\* with the not-authorized status, the other succeeds, and is_enabled is
\* afterwards what it was before.
C5_OneFails ==
    FalseThenTrueDenied =>
        LET before == set_enabled_calls[1].before
        IN /\ set_enabled_calls[1].status =
                 (IF before THEN "ERR_NOT_AUTHORIZED" ELSE "RESULT_SUCCESS")
           /\ set_enabled_calls[2].status =
                 (IF before THEN "RESULT_SUCCESS" ELSE "ERR_NOT_AUTHORIZED")
           /\ set_enabled_calls[2].before = before
           /\ plgldr_context.is_enabled = before

\* C5 witness: the two calls were made while the loader was enabled
C5_Witness ==
    /\ FalseThenTrueDenied
    /\ set_enabled_calls[1].before
    /\ set_enabled_calls[1].status = "ERR_NOT_AUTHORIZED"

\* C6: a successful GetMemoryChangedHandle leaves its handle, which is not
\* zero, cached; a cached handle never changes again, whatever operation
\* follows; and every call made with a handle cached returns that handle with
\* success, creates no event and registers nothing in any handle table.
C6_HandleCachedForGood ==
    [][ /\ plgldr_context.memory_changed_handle # 0 =>
              plgldr_context'.memory_changed_handle =
                  plgldr_context.memory_changed_handle
        /\ (op' = "GetMemoryChangedHandle" /\ ret'.status = "RESULT_SUCCESS") =>
              /\ ret'.handle # 0
              /\ plgldr_context'.memory_changed_handle = ret'.handle
        /\ (op' = "GetMemoryChangedHandle"
             /\ plgldr_context.memory_changed_handle # 0) =>
              /\ ret'.status = "RESULT_SUCCESS"
              /\ ret'.handle = plgldr_context.memory_changed_handle
              /\ ~ret'.created
              /\ handle_table' = handle_table ]_vars

\* C6 witness: a later call returned the cached handle without creating an
\* event, after launches and exits, while a process was current whose handle
\* table does not hold the event
C6_Witness ==
    /\ op = "GetMemoryChangedHandle"
    /\ ret.status = "RESULT_SUCCESS"
    /\ ~ret.created
    /\ handle_table[args.current][ret.handle] = "none"
    /\ plgldr_context.plugin_loaded

\* C8: in every reachable state, plugin_loaded implies that plugin_path is not
\* empty.
C8_LoadedHasPath ==
    plgldr_context.plugin_loaded => plgldr_context.plugin_path # << >>

\* C8 witness: a plugin is loaded
C8_Witness ==
    /\ plgldr_context.plugin_loaded
    /\ op = "OnProcessRun"
    /\ Len(ret.loads) >= 1

\* C9: an OnProcessRun called while no process is running (every process
\* launched before has exited) does not find plugin_loaded set, and, if the
\* loader is enabled, the process is not homebrew and the default plugin
\* exists, it makes a load attempt.
C9_FreshPerLaunch ==
    [][ (RunStep /\ running = {}) =>
            /\ ~plgldr_context.plugin_loaded
            /\ (plgldr_context.is_enabled /\ ~HomebrewLaunched
                  /\ args'.default_exists) => ret'.loads # << >> ]_vars

\* the entries of a listing that are plugin candidates, in enumeration order
RECURSIVE Candidates(_)
Candidates(children) ==
    IF children = << >> THEN << >>
    ELSE LET name == Head(children).physicalName
         IN (IF /\ ~Head(children).isDirectory
                /\ Len(name) >= 4
                /\ SubSeq(name, Len(name) - 3, Len(name)) = << ".", "3", "g", "x" >>
             THEN << Head(children) >> ELSE << >>) \o Candidates(Tail(children))

\* the number of calls of Load made for per-title candidates
PerTitleLoads(loads) == Cardinality({ k \in 1..Len(loads) : ~loads[k].is_default_path })

\* C3: an OnProcessRun on an enabled, not loaded, non-homebrew process with
\* no applicable override scans the per-title directory and calls Load for the
\* candidates (non-directory entries ending in ".3gx") one at a time in
\* enumeration order; no call follows a successful one; the default path is
\* tried, once and last, exactly when every candidate failed (or there was
\* none) and the default file exists; plugin_loaded is true afterwards exactly
\* when the last call succeeded, so it is false when the default failed or
\* was absent.
C3_DiscoveryOrder ==
    [][ ( /\ RunStep
          /\ plgldr_context.is_enabled
          /\ ~plgldr_context.plugin_loaded
          /\ ~HomebrewLaunched
          /\ ~OverrideStagedFor(plgldr_context, args'.process) ) =>
        LET loads == ret'.loads
            cands == Candidates(args'.children)
            m == PerTitleLoads(loads)
            failed(k) == loads[k].result # "Success"
        IN /\ ret'.scanned
           /\ \A k \in 1..(Len(loads) - 1) : failed(k)
           /\ m <= Len(cands)
           /\ \A k \in 1..m :
                 /\ loads[k].plugin_path = cands[k].physicalName
                 /\ ~loads[k].is_default_path
           /\ (m < Len(cands)) => (m >= 1 /\ ~failed(m) /\ Len(loads) = m)
           /\ Len(loads) <= m + 1
           /\ (Len(loads) = m + 1) <=>
                 /\ m = Len(cands)
                 /\ \A k \in 1..m : failed(k)
                 /\ args'.default_exists
           /\ (Len(loads) = m + 1) =>
                 /\ loads[m + 1].is_default_path
                 /\ loads[m + 1].plugin_path =
                       << "a", "/" >> \o
                       << "l", "u", "m", "a", "/", "p", "l", "u", "g", "i", "n", "s", "/" >> \o
                       << "d", "e", "f", "a", "u", "l", "t", ".", "3", "g", "x" >>
           /\ plgldr_context'.plugin_loaded =
                 (loads # << >> /\ ~failed(Len(loads))) ]_vars

\* C3 witness: two candidates were tried in enumeration order, both failed,
\* the default was tried and failed too, and no plugin is loaded
C3_Witness ==
    /\ op = "OnProcessRun"
    /\ Len(Candidates(args.children)) = 2
    /\ Len(ret.loads) = 3
    /\ ret.loads[1].plugin_path = Candidates(args.children)[1].physicalName
    /\ ret.loads[2].plugin_path = Candidates(args.children)[2].physicalName
    /\ ret.loads[3].is_default_path
    /\ ret.loads[3].result = "Error"
    /\ ~plgldr_context.plugin_loaded
    /\ plgldr_context.use_user_load_parameters

\* the string staged in user_load_parameters.path: the characters before the
\* first NUL of the field
StagedPath(ctx) ==
    LET field == ctx.user_load_parameters.path
        ends == { k \in DOMAIN field : field[k] = NUL }
        n == CHOOSE k \in ends : \A j \in ends : k <= j
    IN [i \in 1..n |-> field[i - 1]]

\* C2: an OnProcessRun on an enabled, not loaded, non-homebrew process for
\* which an override is staged (use_user_load_parameters, low_title_Id equal to
\* the low word of the program id, path not empty) calls Load exactly once, for
\* the storage root followed by the staged path without its first character,
\* with is_default_path false, and neither scans the per-title directory nor
\* looks for the default plugin, whatever the result of the load.
C2_OverrideOnly ==
    [][ ( /\ RunStep
          /\ plgldr_context.is_enabled
          /\ ~plgldr_context.plugin_loaded
          /\ ~HomebrewLaunched
          /\ OverrideStagedFor(plgldr_context, args'.process) ) =>
        /\ Len(ret'.loads) = 1
        /\ ret'.loads[1].plugin_path =
              << "a", "/" >> \o Tail(StagedPath(plgldr_context))
        /\ ~ret'.loads[1].is_default_path
        /\ ~ret'.scanned
        /\ ~ret'.default_checked
        /\ plgldr_context'.plugin_loaded = (ret'.loads[1].result = "Success") ]_vars

\* C2 witness: the override load failed while a per-title candidate and the
\* default plugin were there, and nothing else was tried
C2_Witness ==
    /\ op = "OnProcessRun"
    /\ plgldr_context.is_enabled
    /\ ~plgldr_context.plugin_loaded
    /\ OverrideStagedFor(plgldr_context, args.process)
    /\ args.default_exists
    /\ args.children # << >>
    /\ Len(ret.loads) = 1
    /\ ret.loads[1].result = "Error"
    /\ ret.loads[1].plugin_path = << "a", "/", "a", "/" >>

StartsWith(s, prefix) ==
    /\ Len(prefix) <= Len(s)
    /\ \A k \in 1..Len(prefix) : s[k] = prefix[k]

\* plugin_path without the storage root in front of it, every backslash a
\* forward slash, and a '/' in front unless it begins with one
Normalized(plugin_path) ==
    LET root == << "a", "/" >>
        rel == IF StartsWith(plugin_path, root)
               THEN [k \in 1..(Len(plugin_path) - Len(root)) |->
                        plugin_path[Len(root) + k]]
               ELSE plugin_path
        fwd == [k \in 1..Len(rel) |-> IF rel[k] = "\\" THEN "/" ELSE rel[k]]
    IN IF fwd # << >> /\ fwd[1] = "/" THEN fwd ELSE << "/" >> \o fwd

\* C10: GetPluginPath writes, from the start of the output buffer, the
\* normalized plugin_path (storage root prefix removed, backslashes turned
\* into forward slashes, '/' in front unless it begins with one) and its
\* terminator, cut to the buffer's capacity, returns success and leaves the
\* context unchanged.
C10_PluginPathNormalized ==
    [][ op' = "GetPluginPath" =>
          LET want == Normalized(plgldr_context.plugin_path) \o << NUL >>
              size == args'.size
          IN /\ ret'.status = "RESULT_SUCCESS"
             /\ Len(ret'.written) <= size
             /\ Len(ret'.written) = (IF size < Len(want) THEN size ELSE Len(want))
             /\ \A k \in 1..Len(ret'.written) : ret'.written[k] = want[k]
             /\ plgldr_context' = plgldr_context ]_vars

\* C10 witness: root + "\a" was returned as "/a"
C10_Witness ==
    /\ op = "GetPluginPath"
    /\ plgldr_context.plugin_path = << "a", "/", "\\", "a" >>
    /\ ret.written = << "/", "a", NUL >>

\* C7: after every SetLoadSettings request the bytes written to
\* user_load_parameters.path are the first min(capacity - 1, size) bytes of
\* the buffer and a terminator right after them, the bytes written to config
\* are the first min(capacity, size) bytes of the buffer, no index at or
\* beyond a field's capacity is written, and the stored path always holds a
\* terminator inside the field.
C7_BuffersBounded ==
    LET params == plgldr_context.user_load_parameters
    IN /\ \E k \in 0..(PathCap - 1) : params.path[k] = NUL
       /\ DOMAIN params.path = 0..(PathCap - 1)
       /\ DOMAIN params.config = 0..(ConfigCap - 1)
       /\ op = "SetLoadSettings" =>
            LET size == Len(args.path)
                n == IF size < PathCap - 1 THEN size ELSE PathCap - 1
                csize == Len(args.config)
                m == IF csize < ConfigCap THEN csize ELSE ConfigCap
            IN /\ ret.path_written = 0..n
               /\ ret.path_written \subseteq 0..(PathCap - 1)
               /\ \A k \in 0..(n - 1) : params.path[k] = args.path[k + 1]
               /\ params.path[n] = NUL
               /\ ret.config_written = 0..(m - 1)
               /\ ret.config_written \subseteq 0..(ConfigCap - 1)
               /\ \A k \in 0..(m - 1) : params.config[k] = args.config[k + 1]
               /\ plgldr_context.use_user_load_parameters

\* C7 witness: a path buffer and a config buffer longer than their fields
\* were stored, the path cut and terminated in the last byte of the field
C7_Witness ==
    /\ op = "SetLoadSettings"
    /\ Len(args.path) > PathCap
    /\ Len(args.config) > ConfigCap
    /\ \A k \in 1..Len(args.path) : args.path[k] = "a"
    /\ \A k \in 0..(PathCap - 2) : plgldr_context.user_load_parameters.path[k] = "a"
    /\ plgldr_context.user_load_parameters.path[PathCap - 1] = NUL
    /\ \A k \in 0..(ConfigCap - 1) : plgldr_context.user_load_parameters.config[k] = 7

\* the commands the constructor declares without a handler
Unhandled ==
    { "LoadPlugin", "DisplayMenu", "DisplayMessage", "SetRosalinaMenuBlock",
      "SetSwapParam", "SetLoadExeParam" }

\* C11: GetArbiter returns the not-implemented status in every state and
\* changes no field of the context; a request for LoadPlugin, DisplayMenu,
\* DisplayMessage, SetRosalinaMenuBlock, SetSwapParam or SetLoadExeParam runs
\* no handler and changes no field of the context either.
C11_ArbiterNotImplemented ==
    [][ /\ op' = "GetArbiter" =>
              /\ ret'.status = "ERR_NOT_IMPLEMENTED"
              /\ plgldr_context' = plgldr_context
        /\ op' \in Unhandled =>
              /\ ret'.handler = "nullptr"
              /\ plgldr_context' = plgldr_context
              /\ allow_game_change' = allow_game_change
              /\ plugin_loader_enabled' = plugin_loader_enabled ]_vars

\* C11 witness: GetArbiter answered while a plugin was loaded, an override
\* was staged and the event handle was cached
C11_Witness ==
    /\ op = "GetArbiter"
    /\ ret.status = "ERR_NOT_IMPLEMENTED"
    /\ plgldr_context.is_enabled
    /\ plgldr_context.plugin_loaded
    /\ plgldr_context.use_user_load_parameters
    /\ plgldr_context.memory_changed_handle # 0

\* C12: OnProcessExit leaves every field of the context (and the setting, the
\* game-change switch and the handle tables) unchanged, and logs the critical
\* diagnostic exactly when plugin_loaded is true and the load-status word
\* reads zero.
C12_ExitOnlyLogs ==
    [][ op' = "OnProcessExit" =>
          /\ plgldr_context' = plgldr_context
          /\ allow_game_change' = allow_game_change
          /\ plugin_loader_enabled' = plugin_loader_enabled
          /\ handle_table' = handle_table
          /\ ret'.critical = (plgldr_context.plugin_loaded /\ args'.status = 0) ]_vars

\* C12 witness: the exit of a process with a loaded plugin whose status word
\* read zero logged the diagnostic
C12_Witness ==
    /\ op = "OnProcessExit"
    /\ args.status = 0
    /\ plgldr_context.plugin_loaded
    /\ ret.critical
    /\ ret.plugin_path = plgldr_context.plugin_path

\* C15: an OnProcessRun called while is_enabled is false or plugin_loaded is
\* true calls Load for no path, neither scans the per-title directory nor
\* looks for the default plugin, and leaves every field of the context
\* unchanged.
C15_DisabledOrLoadedNoOp ==
    [][ (RunStep /\ (~plgldr_context.is_enabled \/ plgldr_context.plugin_loaded)) =>
          /\ ret'.loads = << >>
          /\ ~ret'.scanned
          /\ ~ret'.default_checked
          /\ plgldr_context' = plgldr_context ]_vars

\* C15 witness: an OnProcessRun of a process that is not homebrew, with the
\* default plugin present, did nothing while a plugin was loaded
C15_Witness ==
    /\ op = "OnProcessRun"
    /\ plgldr_context.is_enabled
    /\ plgldr_context.plugin_loaded
    /\ args.process.value2 # << 57760, 16398 >>
    /\ args.default_exists
    /\ ret.loads = << >>

\* C16: plugin_loaded becomes true only in an OnProcessRun step whose last
\* call of Load succeeded, and no step of another operation changes
\* plugin_loaded, plugin_path or is_default_path.
C16_LoadedOnlyByRun ==
    [][ /\ (~plgldr_context.plugin_loaded /\ plgldr_context'.plugin_loaded) =>
              /\ op' = "OnProcessRun"
              /\ ret'.loads # << >>
              /\ ret'.loads[Len(ret'.loads)].result = "Success"
        /\ op' # "OnProcessRun" =>
              /\ plgldr_context'.plugin_loaded = plgldr_context.plugin_loaded
              /\ plgldr_context'.plugin_path = plgldr_context.plugin_path
              /\ plgldr_context'.is_default_path = plgldr_context.is_default_path ]_vars

\* C16 witness: a request handler sees the plugin loaded by an OnProcessRun
C16_Witness ==
    /\ op = "IsEnabled"
    /\ plgldr_context.plugin_loaded
    /\ plgldr_context.plugin_path # << >>
    /\ running # {}

\* C14: a successful SetEnabled writes the 'plugin loader enabled' setting
\* with the value it stores in is_enabled; a rejected SetEnabled and every
\* other operation leave the setting as it is; and the setting, equal to
\* is_enabled at the start, equals is_enabled in every state.
C14_SettingMirrorsEnabled ==
    /\ [](plugin_loader_enabled = plgldr_context.is_enabled)
    /\ [][ /\ (op' = "SetEnabled" /\ ret'.status = "RESULT_SUCCESS") =>
                 /\ ret'.setting_written
                 /\ plugin_loader_enabled' = plgldr_context'.is_enabled
                 /\ plugin_loader_enabled' = (args'.word = 1)
           /\ ~(op' = "SetEnabled" /\ ret'.status = "RESULT_SUCCESS") =>
                 plugin_loader_enabled' = plugin_loader_enabled
           /\ (op' = "SetEnabled" /\ ret'.status # "RESULT_SUCCESS") =>
                 ~ret'.setting_written ]_vars

\* C14 witness: a SetEnabled has changed is_enabled and the setting with it
C14_Witness ==
    /\ op = "SetEnabled"
    /\ ret.status = "RESULT_SUCCESS"
    /\ ret.setting_written
    /\ set_enabled_calls[Len(set_enabled_calls)].before # plgldr_context.is_enabled
    /\ plugin_loader_enabled = plgldr_context.is_enabled

\* C13: OnMemoryChanged signals an object exactly when plugin_loaded is true,
\* memory_changed_handle is not zero and the current process's handle table
\* holds an event at the cached handle; it creates no object and changes
\* neither a handle table nor any field of the context.
C13_SignalsOnlyValidEvent ==
    [][ op' = "OnMemoryChanged" =>
          LET table == handle_table[args'.current]
              handle == plgldr_context.memory_changed_handle
          IN /\ (ret'.signaled # "none") <=>
                   /\ plgldr_context.plugin_loaded
                   /\ handle # 0
                   /\ table[handle] \in { "plg_event", "guest_event" }
             /\ ret'.signaled # "none" => ret'.signaled = table[handle]
             /\ plgldr_context' = plgldr_context
             /\ handle_table' = handle_table ]_vars

\* C13 witness: with a plugin loaded and a handle cached, the notification
\* was dropped because the current process's table holds no event at the
\* handle
C13_Witness ==
    /\ op = "OnMemoryChanged"
    /\ plgldr_context.plugin_loaded
    /\ plgldr_context.memory_changed_handle # 0
    /\ handle_table[args.current][plgldr_context.memory_changed_handle] = "guest_obj"
    /\ ret.signaled = "none"

\* C19: OnMemoryChanged signals no object other than the event that
\* GetMemoryChangedHandle created and cached.
C19_SignalsOwnEvent ==
    op = "OnMemoryChanged" => ret.signaled \in { "none", "plg_event" }

\* C17: when an OnProcessRun has called Load for the staged override, an
\* OnProcessRun that directly follows it for a process of the same title,
\* with no SetLoadSettings in between, does not call Load for the override
\* again: it calls Load for nothing or scans the per-title directory.
C17_OverrideOneShot ==
    [][ ( /\ op = "OnProcessRun"
          /\ ret.loads # << >>
          /\ ~ret.scanned
          /\ RunStep
          /\ args'.process.program_id = args.process.program_id ) =>
        (ret'.loads = << >> \/ ret'.scanned) ]_vars

\* the path of the global default plugin
DefaultPluginPath == SDMCDir \o PluginDir \o DefaultName

\* C18 as stated: whenever an OnProcessRun ends with plugin_loaded true,
\* is_default_path is true exactly when plugin_path is the path of the global
\* default plugin.
C18_DefaultIffDefaultPath ==
    (op = "OnProcessRun" /\ plgldr_context.plugin_loaded) =>
        (plgldr_context.is_default_path <=>
            plgldr_context.plugin_path = DefaultPluginPath)

\* C18 amended: after an OnProcessRun that called Load, is_default_path is
\* true exactly when the last call was the one for the default plugin behind
\* the per-title scan, and plugin_path is then the default path; after a call
\* for the staged override is_default_path is false and plugin_path is the
\* storage root followed by the staged path without its first character,
\* even where that spells the default path; after a last call for a
\* per-title candidate is_default_path is false and plugin_path is that
\* candidate; and no other step changes plugin_path or is_default_path.
C18_DefaultReflectsOrigin ==
    [][ /\ (RunStep /\ ret'.loads # << >>) =>
              LET from_default == ret'.default_checked /\ args'.default_exists
                  from_override == ~ret'.scanned
                  children == args'.children
              IN /\ plgldr_context'.is_default_path = from_default
                 /\ from_default =>
                       plgldr_context'.plugin_path = DefaultPluginPath
                 /\ from_override =>
                       /\ ~from_default
                       /\ plgldr_context'.plugin_path =
                             SDMCDir \o Tail(StagedPath(plgldr_context))
                 /\ (~from_default /\ ~from_override) =>
                       \E i \in 1..Len(children) :
                          /\ ~children[i].isDirectory
                          /\ plgldr_context'.plugin_path = children[i].physicalName
        /\ ~(RunStep /\ ret'.loads # << >>) =>
              /\ plgldr_context'.is_default_path = plgldr_context.is_default_path
              /\ plgldr_context'.plugin_path = plgldr_context.plugin_path ]_vars

\* C18 witness: the staged override named the default plugin's path and was
\* loaded: plugin_path is the default path and is_default_path is false
C18_Witness ==
    /\ op = "OnProcessRun"
    /\ plgldr_context.plugin_loaded
    /\ Len(ret.loads) = 1
    /\ ~ret.scanned
    /\ plgldr_context.plugin_path = DefaultPluginPath
    /\ ~plgldr_context.is_default_path

\* the step is a GetPluginPath, with a buffer that holds the staged path and
\* its terminator, directly after an OnProcessRun that called Load for the
\* staged override, and the staged path has no backslash
RoundTripStep ==
    /\ op = "OnProcessRun"
    /\ ret.loads # << >>
    /\ ~ret.scanned
    /\ op' = "GetPluginPath"
    /\ args'.size > Len(StagedPath(plgldr_context))
    /\ \A k \in 1..Len(StagedPath(plgldr_context)) :
          StagedPath(plgldr_context)[k] # "\\"

\* C20 as stated: a GetPluginPath after the OnProcessRun that applied a staged
\* path p without backslash returns exactly p, whatever the first character
\* of p.
C20_RoundTripAnyPath ==
    [][ RoundTripStep =>
          ret'.written = StagedPath(plgldr_context) \o << NUL >> ]_vars

\* C20 amended: a GetPluginPath after the OnProcessRun that applied a staged
\* path p without backslash returns exactly p if p begins with '/' and its
\* second character, if it has one, is not '/'.
C20_RoundTripRooted ==
    [][ ( /\ RoundTripStep
          /\ StagedPath(plgldr_context)[1] = "/"
          /\ Len(StagedPath(plgldr_context)) >= 2 =>
                StagedPath(plgldr_context)[2] # "/" ) =>
        ret'.written = StagedPath(plgldr_context) \o << NUL >> ]_vars

\* C20 witness: "/a/" was staged, applied and returned
C20_Witness ==
    /\ op = "GetPluginPath"
    /\ StagedPath(plgldr_context) = << "/", "a", "/" >>
    /\ plgldr_context.plugin_path = << "a", "/", "a", "/" >>
    /\ ~plgldr_context.is_default_path
    /\ ret.written = << "/", "a", "/", NUL >>

====
